---- MODULE Spec2Model ----
(***************************************************************************)
(* Model of rustls-libssl/src/error.rs: the Error value, its constructors, *)
(* Error::raise, the From<Error> sentinel conversions and the              *)
(* ffi_panic_boundary! macro, together with the OpenSSL error queue that   *)
(* raise appends to.                                                       *)
(*                                                                         *)
(* Text is a sequence of one-character strings; NUL stands for the byte 0. *)
(***************************************************************************)
EXTENDS Integers, Sequences, FiniteSets, TLC

\* ------------------------------------------------------------------ bounds

\* Entry-point invocations a thread makes.
MaxCalls == 1
\* Statements the wrapped work executes in one invocation.
MaxWorkSteps == 2

\* ------------------------------------------------------- integers and bits

RECURSIVE Pow2(_)
Pow2(n) == IF n = 0 THEN 1 ELSE 2 * Pow2(n - 1)

\* a << n on i32.  TLC's integers are 32-bit signed like i32, and an overflow
\* is an error there, never a wrap.
Shl(a, n) == a * Pow2(n)

\* `x as i32` of a c_uint below 2^31.
I32(x) == x

\* a | b on non-negative integers, bit by bit.
RECURSIVE BitOr(_, _)
BitOr(a, b) ==
    IF a = 0 THEN b
    ELSE IF b = 0 THEN a
    ELSE (IF (a % 2 = 1) \/ (b % 2 = 1) THEN 1 ELSE 0)
         + 2 * BitOr(a \div 2, b \div 2)

\* openssl_sys::ERR_RFLAGS_OFFSET (openssl/err.h).
ERR_RFLAGS_OFFSET == 18

\* openssl_sys::ERR_RFLAG_FATAL (openssl/err.h: 0x1 << ERR_RFLAGS_OFFSET).
ERR_RFLAG_FATAL == Shl(1, ERR_RFLAGS_OFFSET)

\* const ERR_RFLAG_COMMON: i32 = 0x2i32 << ERR_RFLAGS_OFFSET;
ERR_RFLAG_COMMON == Shl(2, ERR_RFLAGS_OFFSET)

\* ------------------------------------------------------------ Lib, Reason

Libs == {"Ssl", "User"}

\* enum Lib, `self.lib as c_int`.
LibId(l) == CASE l = "Ssl" -> 20 [] l = "User" -> 128

Reasons ==
    {"PassedNullParameter", "InternalError", "UnableToGetWriteLock",
     "OperationFailed", "Unsupported"}

\* A plausible slip: Unsupported declared with the fatal flag like the others.
ReasonCode_UnsupportedFatal(r) ==
    CASE r = "PassedNullParameter" -> BitOr(BitOr(I32(ERR_RFLAG_FATAL), ERR_RFLAG_COMMON), 258)
      [] r = "InternalError" -> BitOr(BitOr(I32(ERR_RFLAG_FATAL), ERR_RFLAG_COMMON), 259)
      [] r = "UnableToGetWriteLock" -> BitOr(BitOr(I32(ERR_RFLAG_FATAL), ERR_RFLAG_COMMON), 272)
      [] r = "OperationFailed" -> BitOr(BitOr(I32(ERR_RFLAG_FATAL), ERR_RFLAG_COMMON), 263)
      [] r = "Unsupported" -> BitOr(BitOr(I32(ERR_RFLAG_FATAL), ERR_RFLAG_COMMON), 268)

\* enum Reason, `self.reason as c_int`.
ReasonCode(r) ==
    CASE r = "PassedNullParameter" -> BitOr(BitOr(I32(ERR_RFLAG_FATAL), ERR_RFLAG_COMMON), 258)
      [] r = "InternalError" -> BitOr(BitOr(I32(ERR_RFLAG_FATAL), ERR_RFLAG_COMMON), 259)
      [] r = "UnableToGetWriteLock" -> BitOr(BitOr(I32(ERR_RFLAG_FATAL), ERR_RFLAG_COMMON), 272)
      [] r = "OperationFailed" -> BitOr(BitOr(I32(ERR_RFLAG_FATAL), ERR_RFLAG_COMMON), 263)
      [] r = "Unsupported" -> BitOr(ERR_RFLAG_COMMON, 268)

\* #[derive(Debug)] on Reason: format!("{:?}", self.reason).
DebugName(r) ==
    CASE r = "PassedNullParameter" ->
           <<"P","a","s","s","e","d","N","u","l","l","P","a","r","a","m","e","t","e","r">>
      [] r = "InternalError" ->
           <<"I","n","t","e","r","n","a","l","E","r","r","o","r">>
      [] r = "UnableToGetWriteLock" ->
           <<"U","n","a","b","l","e","T","o","G","e","t","W","r","i","t","e","L","o","c","k">>
      [] r = "OperationFailed" ->
           <<"O","p","e","r","a","t","i","o","n","F","a","i","l","e","d">>
      [] r = "Unsupported" ->
           <<"U","n","s","u","p","p","o","r","t","e","d">>

\* ------------------------------------------------------------------- text

NUL == "NUL"

\* Option<String>.
None == <<>>
Some(s) == <<s>>

\* Hints callers pass to not_supported / bad_data: the empty text, plain
\* text, text holding the two characters %s, text holding a NUL.
Hints ==
    { <<>>,
      <<"r","e","n","e","g">>,
      <<"%","s">>,
      <<"a",NUL,"b">> }

\* Values of the consumed error types with the text their Display renders.
RustlsErrors ==
    { [kind |-> "DecryptError", display |-> <<"d","e","c","r","y","p","t">>],
      [kind |-> "General", display |-> <<"g","e","n",":","%","s">>] }

IoErrors ==
    { [kind |-> "UnexpectedEof", display |-> <<"e","o","f">>],
      [kind |-> "Other", display |-> <<"i","o",NUL>>] }

\* err.to_string()
to_string(err) == err.display

\* ------------------------------------------------------------------ Error

\* pub struct Error { lib, reason, string }
Error(l, r, s) == [lib |-> l, reason |-> r, string |-> s]

unexpected_panic == Error("Ssl", "InternalError", None)

null_pointer == Error("Ssl", "PassedNullParameter", None)

cannot_lock == Error("Ssl", "UnableToGetWriteLock", None)

not_supported(hint) == Error("Ssl", "Unsupported", Some(hint))

bad_data(hint) == Error("Ssl", "OperationFailed", Some(hint))

from_rustls(err) == Error("User", "OperationFailed", Some(to_string(err)))

\* A plausible slip: the I/O wrapper tagged with the TLS-layer lib.
from_io_SslLib(err) == Error("Ssl", "OperationFailed", Some(to_string(err)))

from_io(err) == Error("User", "OperationFailed", Some(to_string(err)))

\* A constructor call: its name and its argument (<<>> when it takes none).
Call(name, arg) == [name |-> name, arg |-> arg]

ConstructorCalls ==
    {Call("unexpected_panic", <<>>), Call("null_pointer", <<>>), Call("cannot_lock", <<>>)}
    \cup {Call("not_supported", h) : h \in Hints}
    \cup {Call("bad_data", h) : h \in Hints}
    \cup {Call("from_rustls", e) : e \in RustlsErrors}
    \cup {Call("from_io", e) : e \in IoErrors}

\* The Error a constructor call returns.
Construct(c) ==
    CASE c.name = "unexpected_panic" -> unexpected_panic
      [] c.name = "null_pointer" -> null_pointer
      [] c.name = "cannot_lock" -> cannot_lock
      [] c.name = "not_supported" -> not_supported(c.arg)
      [] c.name = "bad_data" -> bad_data(c.arg)
      [] c.name = "from_rustls" -> from_rustls(c.arg)
      [] c.name = "from_io" -> from_io(c.arg)

\* ------------------------------------------------------ the error queue

\* A slot of the queue: allocated empty, then filled.
EmptySlot == [lib |-> 0, reason |-> 0, data |-> <<>>, set |-> FALSE]

\* The bytes of a C string up to its terminating NUL.
RECURSIVE CStrRead(_)
CStrRead(bytes) ==
    IF bytes = <<>> \/ Head(bytes) = NUL THEN <<>>
    ELSE <<Head(bytes)>> \o CStrRead(Tail(bytes))

\* The text a printf-style template renders with its string arguments: %s
\* takes the next argument, %% is a percent sign, any other directive (and a
\* %s with no argument left, which the fixed template never has) renders as
\* "?".
RECURSIVE Printf(_, _)
Printf(f, args) ==
    IF f = <<>> THEN <<>>
    ELSE IF Head(f) = "%" /\ Len(f) >= 2 THEN
        IF f[2] = "s" THEN
            IF args = <<>> THEN <<"?">> \o Printf(Tail(Tail(f)), args)
            ELSE CStrRead(Head(args)) \o Printf(Tail(Tail(f)), Tail(args))
        ELSE IF f[2] = "%" THEN <<"%">> \o Printf(Tail(Tail(f)), args)
        ELSE <<"?">> \o Printf(Tail(Tail(f)), IF args = <<>> THEN args ELSE Tail(args))
    ELSE <<Head(f)>> \o Printf(Tail(f), args)

\* ERR_new(): allocate a new slot on top of the queue.
ERR_new(q) == Append(q, EmptySlot)

\* ERR_set_error(lib, reason, fmt, ...): fill the top slot of the queue.
ERR_set_error(q, lib, reason, fmt, args) ==
    IF q = <<>> THEN q
    ELSE [q EXCEPT ![Len(q)] =
            [lib |-> lib, reason |-> reason,
             data |-> Printf(CStrRead(fmt), args), set |-> TRUE]]

\* ------------------------------------------------------------ Error::raise

\* CString::new(bytes): an interior NUL is an error, else NUL is appended.
CString_new(bytes) ==
    IF \E i \in 1..Len(bytes) : bytes[i] = NUL
    THEN [ok |-> FALSE, bytes |-> <<>>]
    ELSE [ok |-> TRUE, bytes |-> bytes \o <<NUL>>]

\* self.string.clone().unwrap_or_else(|| format!("{:?}", self.reason))
Message(e) == IF e.string = None THEN DebugName(e.reason) ELSE e.string[1]

\* b"%s\0"
Fmt == <<"%", "s", NUL>>

\* The frame of one raise call: the queue and the log it acts on, the
\* CString it holds, whether it unwound, and the statements it executed.
Frame(q, lg) ==
    [queue |-> q, log |-> lg, cstr |-> <<>>, panicked |-> FALSE, trace |-> <<>>]

\* A plausible slip: the message handed to ERR_set_error as the template.
RaiseExec_MessageAsTemplate(stmt, r, e) ==
    LET r1 == [r EXCEPT !.trace = Append(@, stmt)] IN
    CASE stmt = "log" -> [r1 EXCEPT !.log = Append(@, e)]
      [] stmt = "cstring" ->
           LET c == CString_new(Message(e)) IN
           IF c.ok THEN [r1 EXCEPT !.cstr = c.bytes]
           ELSE [r1 EXCEPT !.panicked = TRUE]
      [] stmt = "ERR_new" -> [r1 EXCEPT !.queue = ERR_new(@)]
      [] stmt = "ERR_set_error" ->
           [r1 EXCEPT !.queue =
               ERR_set_error(@, LibId(e.lib), ReasonCode(e.reason), r.cstr, <<>>)]

\* One statement of raise, in the frame r of a call on the Error e.
RaiseExec(stmt, r, e) ==
    LET r1 == [r EXCEPT !.trace = Append(@, stmt)] IN
    CASE stmt = "log" -> [r1 EXCEPT !.log = Append(@, e)]
      [] stmt = "cstring" ->
           LET c == CString_new(Message(e)) IN
           IF c.ok THEN [r1 EXCEPT !.cstr = c.bytes]
           ELSE [r1 EXCEPT !.panicked = TRUE]
      [] stmt = "ERR_new" -> [r1 EXCEPT !.queue = ERR_new(@)]
      [] stmt = "ERR_set_error" ->
           [r1 EXCEPT !.queue =
               ERR_set_error(@, LibId(e.lib), ReasonCode(e.reason), Fmt, <<r.cstr>>)]

\* The statements of raise, in program order.
RaiseBody == <<"log", "cstring", "ERR_new", "ERR_set_error">>

RECURSIVE RunRaise(_, _, _)
RunRaise(i, r, e) ==
    IF i > Len(RaiseBody) \/ r.panicked THEN r
    ELSE RunRaise(i + 1, RaiseExec(RaiseBody[i], r, e), e)

\* A plausible slip: raise without the ERR_new() call.
raise_NoNew(q, lg, e) ==
    LET r == RunRaise(1, Frame(q, lg), e) IN
    IF r.panicked THEN r ELSE [r EXCEPT !.queue = ERR_set_error(q, LibId(e.lib), ReasonCode(e.reason), Fmt, <<r.cstr>>)]

\* Error::raise run to its end (or to its panic) on the queue q and log lg.
raise(q, lg, e) == RunRaise(1, Frame(q, lg), e)

\* ------------------------------------------------- sentinel conversions

Conventions == {"const_ptr", "mut_ptr", "c_int", "c_long", "u64", "u32", "u16", "unit"}

\* A value of a return convention: val is the address of a pointer (0 is
\* null), the number of an integer, and 0 for the one value of ().
Value(ty, val) == [ty |-> ty, val |-> val]

NoValue == Value("none", 0)

\* A plausible slip: the integer conventions carrying the reason code.
From_ReasonAsInt(e, conv) ==
    CASE conv = "const_ptr" -> Value(conv, 0)
      [] conv = "mut_ptr" -> Value(conv, 0)
      [] conv = "unit" -> Value(conv, 0)
      [] OTHER -> Value(conv, ReasonCode(e.reason))

\* impl From<Error> for *const T, *mut T, c_int, c_long, u64, u32, u16, ().
From(e, conv) ==
    CASE conv = "const_ptr" -> Value(conv, 0)
      [] conv = "mut_ptr" -> Value(conv, 0)
      [] conv = "c_int" -> Value(conv, 0)
      [] conv = "c_long" -> Value(conv, 0)
      [] conv = "u64" -> Value(conv, 0)
      [] conv = "u32" -> Value(conv, 0)
      [] conv = "u16" -> Value(conv, 0)
      [] conv = "unit" -> Value(conv, 0)

\* The values the wrapped work can complete with normally.
WorkValues(conv) ==
    IF conv = "unit" THEN {Value(conv, 0)} ELSE {Value(conv, 1), Value(conv, 2)}

\* ------------------------------------------------------------------ state

\* Calling threads.
NumThreads == 2
Threads == 1..NumThreads
Main == 1

VARIABLES
    queue,      \* the error queue: a sequence of slots, the newest last
    log,        \* the diagnostic log: the Errors logged, in order
    pc,         \* per thread: where its entry-point invocation stands
    ctx,        \* per thread: who called the raise under way, "work" or "handler"
    rip,        \* per thread: the statement of RaiseBody the raise under way is at
    cstr,       \* per thread: the CString the raise under way holds
    cur,        \* per thread: the Error the invocation holds (None or Some)
    ctor,       \* per thread: the constructor call that made cur
    conv,       \* per thread: the entry point's declared return convention
    res,        \* per thread: the value the wrapped work completed with
    yielded,    \* per thread: the value the boundary expression evaluated to
    ret,        \* per thread: the value the entry point returned
    calls,      \* per thread: invocations begun
    hist,       \* per thread: the steps of the invocation so far, in order
    q0,         \* per thread: the queue when the invocation began
    qB,         \* per thread: the queue when the wrapped work ended
    nRaiseCalls,\* raise calls begun
    nRaised,    \* raise calls that returned
    overlapped  \* a raise allocated its slot while another raise held an unfilled one

vars ==
    <<queue, log, pc, ctx, rip, cstr, cur, ctor, conv, res, yielded, ret,
      calls, hist, q0, qB, nRaiseCalls, nRaised, overlapped>>

Init ==
    /\ queue = <<>>
    /\ log = <<>>
    /\ pc = [t \in Threads |-> "idle"]
    /\ ctx = [t \in Threads |-> "work"]
    /\ rip = [t \in Threads |-> 1]
    /\ cstr = [t \in Threads |-> <<>>]
    /\ cur = [t \in Threads |-> None]
    /\ ctor = [t \in Threads |-> Call("none", <<>>)]
    /\ conv = [t \in Threads |-> "unit"]
    /\ res = [t \in Threads |-> NoValue]
    /\ yielded = [t \in Threads |-> NoValue]
    /\ ret = [t \in Threads |-> NoValue]
    /\ calls = [t \in Threads |-> 0]
    /\ hist = [t \in Threads |-> <<>>]
    /\ q0 = [t \in Threads |-> <<>>]
    /\ qB = [t \in Threads |-> <<>>]
    /\ nRaiseCalls = 0
    /\ nRaised = 0
    /\ overlapped = FALSE

\* The statements of the wrapped work among the steps of an invocation.
WorkEvents == {"construct", "raise", "drop"}
IsWorkEvent(ev) == ev \in WorkEvents
WorkSteps(t) == Len(SelectSeq(hist[t], IsWorkEvent))

\* A thread calls a foreign-exposed entry point declared to return c; its
\* body enters ffi_panic_boundary! and the wrapped work starts.
Enter(t, c) ==
    /\ UNCHANGED overlapped
    /\ pc[t] = "idle"
    /\ calls[t] < MaxCalls
    /\ pc' = [pc EXCEPT ![t] = "work"]
    /\ conv' = [conv EXCEPT ![t] = c]
    /\ calls' = [calls EXCEPT ![t] = @ + 1]
    /\ cur' = [cur EXCEPT ![t] = None]
    /\ ctor' = [ctor EXCEPT ![t] = Call("none", <<>>)]
    /\ res' = [res EXCEPT ![t] = NoValue]
    /\ yielded' = [yielded EXCEPT ![t] = NoValue]
    /\ ret' = [ret EXCEPT ![t] = NoValue]
    /\ hist' = [hist EXCEPT ![t] = <<>>]
    /\ q0' = [q0 EXCEPT ![t] = queue]
    /\ qB' = [qB EXCEPT ![t] = queue]
    /\ UNCHANGED <<queue, log, ctx, rip, cstr, nRaiseCalls, nRaised>>

\* The work constructs an Error.
WorkConstruct(t, c) ==
    /\ UNCHANGED overlapped
    /\ pc[t] = "work"
    /\ cur[t] = None
    /\ WorkSteps(t) < MaxWorkSteps
    /\ cur' = [cur EXCEPT ![t] = Some(Construct(c))]
    /\ ctor' = [ctor EXCEPT ![t] = c]
    /\ hist' = [hist EXCEPT ![t] = Append(@, "construct")]
    /\ UNCHANGED <<queue, log, pc, ctx, rip, cstr, conv, res, yielded, ret,
                   calls, q0, qB, nRaiseCalls, nRaised>>

\* A plausible slip: an Error that reports itself to the queue when dropped.
WorkDrop_Pushes(t) ==
    /\ UNCHANGED overlapped
    /\ pc[t] = "work"
    /\ cur[t] # None
    /\ WorkSteps(t) < MaxWorkSteps
    /\ queue' = Append(queue, [lib |-> LibId(cur[t][1].lib),
                               reason |-> ReasonCode(cur[t][1].reason),
                               data |-> Message(cur[t][1]), set |-> TRUE])
    /\ cur' = [cur EXCEPT ![t] = None]
    /\ hist' = [hist EXCEPT ![t] = Append(@, "drop")]
    /\ UNCHANGED <<log, pc, ctx, rip, cstr, ctor, conv, res, yielded,
                   ret, calls, q0, qB, nRaiseCalls, nRaised>>

\* The work drops the Error it holds without raising it.
WorkDrop(t) ==
    /\ UNCHANGED overlapped
    /\ pc[t] = "work"
    /\ cur[t] # None
    /\ WorkSteps(t) < MaxWorkSteps
    /\ cur' = [cur EXCEPT ![t] = None]
    /\ hist' = [hist EXCEPT ![t] = Append(@, "drop")]
    /\ UNCHANGED <<queue, log, pc, ctx, rip, cstr, ctor, conv, res, yielded,
                   ret, calls, q0, qB, nRaiseCalls, nRaised>>

\* The work converts the Error it holds and returns: `return e.into()`.
WorkConvert(t) ==
    /\ UNCHANGED overlapped
    /\ pc[t] = "work"
    /\ cur[t] # None
    /\ res' = [res EXCEPT ![t] = From(cur[t][1], conv[t])]
    /\ cur' = [cur EXCEPT ![t] = None]
    /\ pc' = [pc EXCEPT ![t] = "ok"]
    /\ qB' = [qB EXCEPT ![t] = queue]
    /\ hist' = [hist EXCEPT ![t] = Append(@, "convert")]
    /\ UNCHANGED <<queue, log, ctx, rip, cstr, ctor, conv, yielded, ret, calls,
                   q0, nRaiseCalls, nRaised>>

\* The work completes normally with the value v.
WorkReturn(t, v) ==
    /\ UNCHANGED overlapped
    /\ pc[t] = "work"
    /\ cur[t] = None
    /\ v \in WorkValues(conv[t])
    /\ res' = [res EXCEPT ![t] = v]
    /\ pc' = [pc EXCEPT ![t] = "ok"]
    /\ qB' = [qB EXCEPT ![t] = queue]
    /\ hist' = [hist EXCEPT ![t] = Append(@, "return")]
    /\ UNCHANGED <<queue, log, ctx, rip, cstr, cur, ctor, conv, yielded, ret,
                   calls, q0, nRaiseCalls, nRaised>>

\* The work panics; catch_unwind stops the unwinding, which drops the Error
\* the work held.
WorkPanic(t) ==
    /\ UNCHANGED overlapped
    /\ pc[t] = "work"
    /\ pc' = [pc EXCEPT ![t] = "caught"]
    /\ cur' = [cur EXCEPT ![t] = None]
    /\ qB' = [qB EXCEPT ![t] = queue]
    /\ hist' = [hist EXCEPT ![t] = Append(@, "panic")]
    /\ UNCHANGED <<queue, log, ctx, rip, cstr, ctor, conv, res, yielded, ret,
                   calls, q0, nRaiseCalls, nRaised>>

\* The work calls raise on the Error it holds, and raise runs to its end: it
\* returns self, or its unwrap panics and catch_unwind stops the unwinding.
WorkRaise(t) ==
    /\ UNCHANGED overlapped
    /\ pc[t] = "work"
    /\ cur[t] # None
    /\ WorkSteps(t) < MaxWorkSteps
    /\ LET r == raise(queue, log, cur[t][1]) IN
        /\ queue' = r.queue
        /\ log' = r.log
        /\ nRaiseCalls' = nRaiseCalls + 1
        /\ IF r.panicked
           THEN /\ pc' = [pc EXCEPT ![t] = "caught"]
                /\ cur' = [cur EXCEPT ![t] = None]
                /\ qB' = [qB EXCEPT ![t] = r.queue]
                /\ hist' = [hist EXCEPT ![t] = @ \o r.trace \o <<"panic">>]
                /\ UNCHANGED nRaised
           ELSE /\ hist' = [hist EXCEPT ![t] = @ \o r.trace \o <<"raise">>]
                /\ nRaised' = nRaised + 1
                /\ UNCHANGED <<pc, cur, qB>>
    /\ UNCHANGED <<ctx, rip, cstr, ctor, conv, res, yielded, ret, calls, q0>>

\* `Ok(ret) => ret`: the boundary expression evaluates to the work's value.
BoundaryOk(t) ==
    /\ UNCHANGED overlapped
    /\ pc[t] = "ok"
    /\ yielded' = [yielded EXCEPT ![t] = res[t]]
    /\ pc' = [pc EXCEPT ![t] = "tail"]
    /\ hist' = [hist EXCEPT ![t] = Append(@, "yield")]
    /\ UNCHANGED <<queue, log, ctx, rip, cstr, cur, ctor, conv, res, ret, calls,
                   q0, qB, nRaiseCalls, nRaised>>

\* The code of the entry point that follows the boundary expression: it
\* returns the value the expression evaluated to.
EntryTail(t) ==
    /\ UNCHANGED overlapped
    /\ pc[t] = "tail"
    /\ ret' = [ret EXCEPT ![t] = yielded[t]]
    /\ pc' = [pc EXCEPT ![t] = "done"]
    /\ hist' = [hist EXCEPT ![t] = Append(@, "tail")]
    /\ UNCHANGED <<queue, log, ctx, rip, cstr, cur, ctor, conv, res, yielded,
                   calls, q0, qB, nRaiseCalls, nRaised>>

\* A plausible slip: the Err arm without the raise call.
BoundaryErr_NoRaise(t) ==
    /\ UNCHANGED overlapped
    /\ pc[t] = "caught"
    /\ ret' = [ret EXCEPT ![t] = From(unexpected_panic, conv[t])]
    /\ pc' = [pc EXCEPT ![t] = "done"]
    /\ hist' = [hist EXCEPT ![t] = @ \o <<"intercept", "sentinel_return">>]
    /\ UNCHANGED <<queue, log, nRaiseCalls, nRaised, ctor, cur>>
    /\ UNCHANGED <<ctx, rip, cstr, conv, res, yielded, calls, q0, qB>>

\* `Err(_) => return Error::unexpected_panic().raise().into()`: the entry
\* point returns from the Err arm.  A panic of this raise would leave the
\* boundary ("abort").
BoundaryErr(t) ==
    /\ UNCHANGED overlapped
    /\ pc[t] = "caught"
    /\ LET e == unexpected_panic
           r == raise(queue, log, e) IN
        /\ queue' = r.queue
        /\ log' = r.log
        /\ nRaiseCalls' = nRaiseCalls + 1
        /\ ctor' = [ctor EXCEPT ![t] = Call("unexpected_panic", <<>>)]
        /\ cur' = [cur EXCEPT ![t] = None]
        /\ IF r.panicked
           THEN /\ pc' = [pc EXCEPT ![t] = "abort"]
                /\ hist' = [hist EXCEPT ![t] = @ \o <<"intercept">> \o r.trace \o <<"panic">>]
                /\ UNCHANGED <<ret, nRaised>>
           ELSE /\ ret' = [ret EXCEPT ![t] = From(e, conv[t])]
                /\ pc' = [pc EXCEPT ![t] = "done"]
                /\ hist' = [hist EXCEPT ![t] =
                              @ \o <<"intercept">> \o r.trace \o <<"raise", "sentinel_return">>]
                /\ nRaised' = nRaised + 1
    /\ UNCHANGED <<ctx, rip, cstr, conv, res, yielded, calls, q0, qB>>

\* The foreign caller has its return value; the invocation's frame is gone.
Finish(t) ==
    /\ UNCHANGED overlapped
    /\ pc[t] = "done"
    /\ pc' = [pc EXCEPT ![t] = "idle"]
    /\ conv' = [conv EXCEPT ![t] = "unit"]
    /\ ctor' = [ctor EXCEPT ![t] = Call("none", <<>>)]
    /\ res' = [res EXCEPT ![t] = NoValue]
    /\ yielded' = [yielded EXCEPT ![t] = NoValue]
    /\ ret' = [ret EXCEPT ![t] = NoValue]
    /\ hist' = [hist EXCEPT ![t] = <<>>]
    /\ q0' = [q0 EXCEPT ![t] = <<>>]
    /\ qB' = [qB EXCEPT ![t] = <<>>]
    /\ UNCHANGED <<queue, log, ctx, rip, cstr, cur, calls, nRaiseCalls, nRaised>>

\* One calling thread; every operation runs to its end.
Next ==
    \E t \in {Main} :
        \/ \E c \in Conventions : Enter(t, c)
        \/ \E c \in ConstructorCalls : WorkConstruct(t, c)
        \/ WorkDrop(t)
        \/ WorkConvert(t)
        \/ \E v \in WorkValues(conv[t]) : WorkReturn(t, v)
        \/ WorkPanic(t)
        \/ WorkRaise(t)
        \/ BoundaryOk(t)
        \/ EntryTail(t)
        \/ BoundaryErr(t)
        \/ Finish(t)

Spec == Init /\ [][Next]_vars

\* ------------------------------------------ raise, statement by statement

\* The work calls raise on the Error it holds.
RaiseCall(t) ==
    /\ UNCHANGED overlapped
    /\ pc[t] = "work"
    /\ cur[t] # None
    /\ WorkSteps(t) < MaxWorkSteps
    /\ pc' = [pc EXCEPT ![t] = "raise"]
    /\ ctx' = [ctx EXCEPT ![t] = "work"]
    /\ rip' = [rip EXCEPT ![t] = 1]
    /\ nRaiseCalls' = nRaiseCalls + 1
    /\ UNCHANGED <<queue, log, cstr, cur, ctor, conv, res, yielded, ret, calls,
                   hist, q0, qB, nRaised>>

\* Where a raise that panicked leaves its thread: inside the boundary the
\* unwinding stops at catch_unwind, elsewhere it goes on past the caller.
AfterRaisePanic(c) ==
    CASE c = "work" -> "caught" [] c = "handler" -> "abort" [] c = "direct" -> "unwound"

\* Where a raise that returned leaves its thread.
AfterRaise(c) ==
    CASE c = "work" -> "work" [] c = "handler" -> "handler_ret" [] c = "direct" -> "returned"

\* The statements the raise under way on thread u has executed.
Executed(u) == IF pc[u] = "raise" THEN SubSeq(RaiseBody, 1, rip[u] - 1) ELSE <<>>

\* Thread u is inside a raise that has allocated its slot and not filled it.
HoldsUnfilledSlot(u) ==
    /\ \E i \in 1..Len(Executed(u)) : Executed(u)[i] = "ERR_new"
    /\ ~ \E i \in 1..Len(Executed(u)) : Executed(u)[i] = "ERR_set_error"

\* The raise under way executes its next statement.
RaiseStep(t) ==
    /\ pc[t] = "raise"
    /\ LET stmt == RaiseBody[rip[t]]
           r == RaiseExec(stmt, [Frame(queue, log) EXCEPT !.cstr = cstr[t]], cur[t][1]) IN
        /\ queue' = r.queue
        /\ log' = r.log
        /\ IF r.panicked
           THEN /\ pc' = [pc EXCEPT ![t] = AfterRaisePanic(ctx[t])]
                /\ cur' = [cur EXCEPT ![t] = None]
                /\ cstr' = [cstr EXCEPT ![t] = <<>>]
                /\ rip' = [rip EXCEPT ![t] = 1]
                /\ qB' = [qB EXCEPT ![t] = IF ctx[t] = "work" THEN r.queue ELSE @]
                /\ hist' = [hist EXCEPT ![t] = @ \o <<stmt, "panic">>]
                /\ UNCHANGED nRaised
           ELSE IF rip[t] = Len(RaiseBody)
           THEN /\ pc' = [pc EXCEPT ![t] = AfterRaise(ctx[t])]
                /\ cstr' = [cstr EXCEPT ![t] = <<>>]
                /\ rip' = [rip EXCEPT ![t] = 1]
                /\ hist' = [hist EXCEPT ![t] = @ \o <<stmt, "raise">>]
                /\ nRaised' = nRaised + 1
                /\ UNCHANGED <<cur, qB>>
           ELSE /\ rip' = [rip EXCEPT ![t] = @ + 1]
                /\ cstr' = [cstr EXCEPT ![t] = r.cstr]
                /\ hist' = [hist EXCEPT ![t] = Append(@, stmt)]
                /\ UNCHANGED <<pc, cur, qB, nRaised>>
        /\ overlapped' =
            (overlapped \/ (stmt = "ERR_new" /\ \E u \in Threads \ {t} : HoldsUnfilledSlot(u)))
    /\ UNCHANGED <<ctx, ctor, conv, res, yielded, ret, calls, q0, nRaiseCalls>>

\* The Err arm is entered: Error::unexpected_panic() is built and raise is
\* called on it.
Intercept(t) ==
    /\ UNCHANGED overlapped
    /\ pc[t] = "caught"
    /\ cur' = [cur EXCEPT ![t] = Some(unexpected_panic)]
    /\ ctor' = [ctor EXCEPT ![t] = Call("unexpected_panic", <<>>)]
    /\ pc' = [pc EXCEPT ![t] = "raise"]
    /\ ctx' = [ctx EXCEPT ![t] = "handler"]
    /\ rip' = [rip EXCEPT ![t] = 1]
    /\ nRaiseCalls' = nRaiseCalls + 1
    /\ hist' = [hist EXCEPT ![t] = Append(@, "intercept")]
    /\ UNCHANGED <<queue, log, cstr, conv, res, yielded, ret, calls, q0, qB, nRaised>>

\* A plausible slip: the Err arm without `return`, so that its value becomes
\* the value of the boundary expression and the entry point goes on.
SentinelReturn_NoReturn(t) ==
    /\ UNCHANGED overlapped
    /\ pc[t] = "handler_ret"
    /\ yielded' = [yielded EXCEPT ![t] = From(cur[t][1], conv[t])]
    /\ cur' = [cur EXCEPT ![t] = None]
    /\ pc' = [pc EXCEPT ![t] = "tail"]
    /\ hist' = [hist EXCEPT ![t] = Append(@, "yield")]
    /\ UNCHANGED <<queue, log, ctx, rip, cstr, ctor, conv, res, ret, calls,
                   q0, qB, nRaiseCalls, nRaised>>

\* `return <the raised Error>.into()`: the entry point returns the sentinel
\* from the Err arm.
SentinelReturn(t) ==
    /\ UNCHANGED overlapped
    /\ pc[t] = "handler_ret"
    /\ ret' = [ret EXCEPT ![t] = From(cur[t][1], conv[t])]
    /\ cur' = [cur EXCEPT ![t] = None]
    /\ pc' = [pc EXCEPT ![t] = "done"]
    /\ hist' = [hist EXCEPT ![t] = Append(@, "sentinel_return")]
    /\ UNCHANGED <<queue, log, ctx, rip, cstr, ctor, conv, res, yielded, calls,
                   q0, qB, nRaiseCalls, nRaised>>

\* One calling thread; raise and the Err arm run statement by statement.
NextSteps ==
    \E t \in {Main} :
        \/ \E c \in Conventions : Enter(t, c)
        \/ \E c \in ConstructorCalls : WorkConstruct(t, c)
        \/ WorkDrop(t)
        \/ WorkConvert(t)
        \/ \E v \in WorkValues(conv[t]) : WorkReturn(t, v)
        \/ WorkPanic(t)
        \/ RaiseCall(t)
        \/ RaiseStep(t)
        \/ BoundaryOk(t)
        \/ EntryTail(t)
        \/ Intercept(t)
        \/ SentinelReturn(t)
        \/ Finish(t)

SpecSteps == Init /\ [][NextSteps]_vars

\* ------------------------------------------------- concurrent raise calls

\* The Errors the concurrent threads raise.
ConcCalls ==
    {Call("null_pointer", <<>>), Call("bad_data", <<"%","s">>),
     Call("not_supported", <<"a",NUL,"b">>)}

\* A thread that has not raised yet builds an Error and calls raise on it.
DirectRaise(t, c) ==
    /\ UNCHANGED overlapped
    /\ pc[t] = "idle"
    /\ calls[t] = 0
    /\ calls' = [calls EXCEPT ![t] = 1]
    /\ cur' = [cur EXCEPT ![t] = Some(Construct(c))]
    /\ ctor' = [ctor EXCEPT ![t] = c]
    /\ pc' = [pc EXCEPT ![t] = "raise"]
    /\ ctx' = [ctx EXCEPT ![t] = "direct"]
    /\ rip' = [rip EXCEPT ![t] = 1]
    /\ nRaiseCalls' = nRaiseCalls + 1
    /\ UNCHANGED <<queue, log, cstr, conv, res, yielded, ret, hist, q0, qB, nRaised>>

\* Every thread raises once against the one queue; the statements of the
\* raise calls interleave freely.
NextConc ==
    \E t \in Threads :
        \/ \E c \in ConcCalls : DirectRaise(t, c)
        \/ RaiseStep(t)

SpecConc == Init /\ [][NextConc]_vars

\* ---------------------------------------------------------------- properties

Last(h) == h[Len(h)]
Top(q) == q[Len(q)]
EndsWith(h, ev) == h # <<>> /\ Last(h) = ev
Has(h, ev) == \E i \in 1..Len(h) : h[i] = ev

\* The steps of an invocation before its first step ev (all, if none is ev).
RECURSIVE Before(_, _)
Before(h, ev) ==
    IF h = <<>> \/ Head(h) = ev THEN <<>> ELSE <<Head(h)>> \o Before(Tail(h), ev)

\* The steps of an invocation after its first step ev (none, if none is ev).
RECURSIVE After(_, _)
After(h, ev) ==
    IF h = <<>> THEN <<>> ELSE IF Head(h) = ev THEN Tail(h) ELSE After(Tail(h), ev)

RECURSIVE Count(_, _)
Count(h, ev) ==
    IF h = <<>> THEN 0 ELSE (IF Head(h) = ev THEN 1 ELSE 0) + Count(Tail(h), ev)

\* The wrapped work of thread t's invocation panicked.
Panicked(t) == Has(hist[t], "panic")

\* The raise calls the wrapped work of thread t's invocation completed.
WorkRaises(t) == Count(Before(hist[t], "panic"), "raise")

\* The documented sentinels: null for the pointer conventions, 0 for the
\* integer conventions, the unit value for ().
ExpectedSentinel(c) ==
    CASE c \in {"const_ptr", "mut_ptr"} -> [ty |-> c, val |-> 0]
      [] c \in {"c_int", "c_long", "u64", "u32", "u16"} -> [ty |-> c, val |-> 0]
      [] c = "unit" -> [ty |-> "unit", val |-> 0]

\* The documented reason codes: base + common flag (2 * 2^18) + fatal flag (2^18).
ExpectedCode(r) ==
    CASE r = "PassedNullParameter" -> 258 + 524288 + 262144
      [] r = "InternalError" -> 259 + 524288 + 262144
      [] r = "UnableToGetWriteLock" -> 272 + 524288 + 262144
      [] r = "OperationFailed" -> 263 + 524288 + 262144
      [] r = "Unsupported" -> 268 + 524288

\* The queue record the documentation gives the Error e.
ExpectedRecord(e) ==
    [lib |-> IF e.lib = "Ssl" THEN 20 ELSE 128,
     reason |-> ExpectedCode(e.reason),
     data |-> IF e.string = None THEN DebugName(e.reason) ELSE e.string[1],
     set |-> TRUE]

\* C1: when the wrapped work completes normally with V the boundary
\* expression evaluates to V, the entry point returns V and the queue is as
\* the work left it; when the work panics the panic stays inside the
\* boundary, the entry point returns the sentinel of its return convention,
\* and the queue is as the work left it plus exactly one record, with lib 20
\* and reason InternalError.
C1_PanicBoundary ==
    \A t \in {Main} :
        /\ pc[t] # "abort"
        /\ (pc[t] \in {"tail", "done"} /\ ~Panicked(t)) =>
              /\ res[t] # NoValue
              /\ yielded[t] = res[t]
              /\ queue = qB[t]
              /\ pc[t] = "done" => ret[t] = res[t]
        /\ (pc[t] = "done" /\ Panicked(t)) =>
              /\ ret[t] = ExpectedSentinel(conv[t])
              /\ yielded[t] = NoValue
              /\ Len(queue) = Len(qB[t]) + 1
              /\ SubSeq(queue, 1, Len(qB[t])) = qB[t]
              /\ Top(queue).set
              /\ Top(queue).lib = 20
              /\ Top(queue).reason = ExpectedCode("InternalError")

\* C1 witness: an entry point declared to return c_int whose work raised an
\* Error and then panicked has returned.
C1_Witness ==
    /\ pc[Main] = "done"
    /\ Panicked(Main)
    /\ conv[Main] = "c_int"
    /\ ret[Main] = [ty |-> "c_int", val |-> 0]
    /\ Len(qB[Main]) = 1
    /\ Len(queue) = 2

\* C2: every raise call that begins returns: no raise panics, whatever the
\* Error and its hint.
C2_RaiseNeverFails == nRaiseCalls = nRaised

\* The Error of the raise call that a step begins, read before the step.
RaisedError == IF pc[Main] = "caught" THEN unexpected_panic ELSE cur[Main][1]

\* C3: every raise call appends exactly one record to the queue, leaving the
\* earlier records as they were; the record has the Error's lib id and
\* reason code, and as message the hint verbatim, or the Reason's name when
\* there is no hint.
C3_RaiseAppendsRecord ==
    [][nRaiseCalls' = nRaiseCalls + 1 =>
          queue' = Append(queue, ExpectedRecord(RaisedError))]_vars

\* The work of thread t's invocation built an Error, raised it, converted it
\* and returned.
ExplicitFailure(t) ==
    SelectSeq(hist[t], LAMBDA ev : ev \in {"construct", "drop", "raise", "convert", "return", "panic"})
        = <<"construct", "raise", "convert">>

\* C4 as claimed: an invocation that ends in failure (an Error built, raised
\* and converted; a panic; a raise and later a panic) returns the sentinel
\* with exactly one record more on the queue than when it began.
C4_ExactlyOneRecord ==
    \A t \in {Main} :
        (pc[t] = "done" /\ (ExplicitFailure(t) \/ Panicked(t))) =>
            /\ ret[t] = ExpectedSentinel(conv[t])
            /\ Len(queue) = Len(q0[t]) + 1

\* C4 as amended: such an invocation returns the sentinel; the queue has
\* gained exactly one record when the work raised and converted an Error or
\* panicked without having raised, and one record per raise the work
\* completed plus the boundary's own record when the work raised and later
\* panicked (two for a single raise).
C4_OneRecordPerRaise ==
    \A t \in {Main} :
        /\ (pc[t] = "done" /\ ExplicitFailure(t)) =>
              /\ ret[t] = ExpectedSentinel(conv[t])
              /\ Len(queue) = Len(q0[t]) + 1
        /\ (pc[t] = "done" /\ Panicked(t)) =>
              /\ ret[t] = ExpectedSentinel(conv[t])
              /\ Len(queue) = Len(q0[t]) + WorkRaises(t) + 1
              /\ SubSeq(queue, 1, Len(q0[t])) = q0[t]

\* C4 witness: an invocation whose work raised once and then panicked has
\* returned, with two records more on the queue.
C4_Witness ==
    /\ pc[Main] = "done"
    /\ Panicked(Main)
    /\ WorkRaises(Main) = 1
    /\ Len(queue) = Len(q0[Main]) + 2
    /\ ret[Main] = ExpectedSentinel(conv[Main])

\* C5: the value a conversion yields is the sentinel of the return
\* convention, whatever lib, reason and hint the converted Error has.
C5_FieldBlind ==
    \A t \in {Main} :
        /\ (pc[t] = "ok" /\ EndsWith(hist[t], "convert")) =>
              res[t] = ExpectedSentinel(conv[t])
        /\ (pc[t] = "done" /\ Panicked(t)) =>
              ret[t] = ExpectedSentinel(conv[t])

\* C5 witness: a user-lib Error with a hint has been converted to u16.
C5_Witness ==
    /\ pc[Main] = "ok"
    /\ EndsWith(hist[Main], "convert")
    /\ ctor[Main].name = "from_rustls"
    /\ conv[Main] = "u16"
    /\ res[Main] = [ty |-> "u16", val |-> 0]

\* The documented base code and fatality of each Reason.
BaseCode(r) ==
    CASE r = "PassedNullParameter" -> 258 [] r = "InternalError" -> 259
      [] r = "UnableToGetWriteLock" -> 272 [] r = "OperationFailed" -> 263
      [] r = "Unsupported" -> 268
IsFatal(r) == r # "Unsupported"

\* The discriminants of Reason against the documented table, bit by bit.
ReasonTable ==
    \A r \in Reasons :
        /\ ReasonCode(r) = ExpectedCode(r)
        /\ ReasonCode(r) % Pow2(ERR_RFLAGS_OFFSET) = BaseCode(r)
        /\ (ReasonCode(r) \div Pow2(ERR_RFLAGS_OFFSET)) % 2 = (IF IsFatal(r) THEN 1 ELSE 0)
        /\ (ReasonCode(r) \div Pow2(ERR_RFLAGS_OFFSET + 1)) % 2 = 1
        /\ ReasonCode(r) \div Pow2(ERR_RFLAGS_OFFSET + 2) = 0
        /\ BaseCode(r) < Pow2(ERR_RFLAGS_OFFSET)

\* C6: every Reason's code is its base code with the common flag and, for
\* the four fatal Reasons only, the fatal flag; the flags lie above the base
\* code's bits; and the reason a raise writes to its queue record is that
\* code.
C6_ReasonCodes ==
    /\ ReasonTable
    /\ \A t \in {Main} :
          (pc[t] = "work" /\ EndsWith(hist[t], "raise")) =>
              /\ Top(queue).set
              /\ Top(queue).reason = ExpectedCode(cur[t][1].reason)

\* C6 witness: an Unsupported Error has been raised and its record carries
\* common|268.
C6_Witness ==
    /\ pc[Main] = "work"
    /\ EndsWith(hist[Main], "raise")
    /\ cur[Main][1].reason = "Unsupported"
    /\ Top(queue).reason = 524556

\* Every constructor call returns an Error.
ConstructorsTotal ==
    \A c \in ConstructorCalls :
        Construct(c).lib \in Libs /\ Construct(c).reason \in Reasons

\* C7: each constructor returns the Error of the documented table; lib User
\* comes only with OperationFailed; the hint is absent exactly for the three
\* constructors that take none.
C7_ConstructorTable ==
    /\ ConstructorsTotal
    /\ \A t \in {Main} :
          cur[t] # None =>
            LET e == cur[t][1]
                c == ctor[t] IN
            /\ c.name = "unexpected_panic" => e = [lib |-> "Ssl", reason |-> "InternalError", string |-> <<>>]
            /\ c.name = "null_pointer" => e = [lib |-> "Ssl", reason |-> "PassedNullParameter", string |-> <<>>]
            /\ c.name = "cannot_lock" => e = [lib |-> "Ssl", reason |-> "UnableToGetWriteLock", string |-> <<>>]
            /\ c.name = "not_supported" => e = [lib |-> "Ssl", reason |-> "Unsupported", string |-> <<c.arg>>]
            /\ c.name = "bad_data" => e = [lib |-> "Ssl", reason |-> "OperationFailed", string |-> <<c.arg>>]
            /\ c.name \in {"from_rustls", "from_io"} =>
                  e = [lib |-> "User", reason |-> "OperationFailed", string |-> <<c.arg.display>>]
            /\ LibId(e.lib) \in {20, 128}
            /\ LibId(e.lib) = 128 => e.reason = "OperationFailed"
            /\ (e.string = <<>>) <=> (c.name \in {"unexpected_panic", "null_pointer", "cannot_lock"})

\* C7 witness: the work holds the Error from_io built from an I/O error.
C7_Witness ==
    /\ pc[Main] = "work"
    /\ cur[Main] # None
    /\ ctor[Main].name = "from_io"
    /\ cur[Main][1].string = <<ctor[Main].arg.display>>
    /\ LibId(cur[Main][1].lib) = 128

\* C8: a step changes the queue only if it is a raise call that returns, and
\* the number of records on the queue is the number of raise calls that
\* returned: constructing, converting and dropping an Error leave the queue
\* alone.
C8_OnlyRaiseAppends ==
    [][/\ queue' # queue => nRaised' = nRaised + 1
       /\ Len(queue') = nRaised'
       /\ Len(queue) = nRaised]_vars

\* C8 witness: an invocation built an Error and dropped it unraised, and the
\* queue is as it was.
C8_Witness ==
    /\ pc[Main] = "done"
    /\ SelectSeq(hist[Main], LAMBDA ev : ev \in {"construct", "drop", "raise", "convert"})
          = <<"construct", "drop">>
    /\ queue = q0[Main]
    /\ nRaised = Len(queue)

\* The threads whose raise call returned, and whether every thread is done.
Returned == {t \in Threads : pc[t] = "returned"}
AllRaised == \A t \in Threads : pc[t] \in {"returned", "unwound"}

\* Each record of the queue carries the data of one distinct returned raise.
OneRecordPerRaise ==
    \E f \in [1..Len(queue) -> Returned] :
        /\ \A i, j \in 1..Len(queue) : f[i] = f[j] => i = j
        /\ \A i \in 1..Len(queue) : queue[i] = ExpectedRecord(cur[f[i]][1])

HandlerEvents == {"log", "cstring", "ERR_new", "ERR_set_error", "raise", "sentinel_return"}

\* C10: in raise the log record is emitted before the slot is allocated and
\* the slot is allocated before it is filled; when the work panics the
\* InternalError record is on the queue before the sentinel is returned, and
\* after the interception only the Err arm runs: no step of the work and no
\* code of the entry point after the boundary expression.
C10_Ordering ==
    \A t \in {Main} :
        LET h == hist[t] IN
        /\ \A i \in 1..Len(h) :
              /\ h[i] = "ERR_new" => (i > 2 /\ h[i-1] = "cstring" /\ h[i-2] = "log")
              /\ h[i] = "ERR_set_error" => (i > 1 /\ h[i-1] = "ERR_new")
        /\ EndsWith(h, "ERR_new") =>
              /\ Top(queue) = EmptySlot
              /\ log # <<>> /\ Last(log) = cur[t][1]
        /\ EndsWith(h, "ERR_set_error") \/ EndsWith(h, "raise") =>
              Top(queue) = ExpectedRecord(cur[t][1])
        /\ (pc[t] \in {"handler_ret", "done"} /\ Has(h, "intercept")) =>
              /\ Top(queue) = ExpectedRecord(unexpected_panic)
              /\ Len(queue) = Len(qB[t]) + 1
        /\ pc[t] = "handler_ret" => ret[t] = NoValue
        /\ Has(h, "intercept") =>
              /\ \A i \in 1..Len(After(h, "intercept")) : After(h, "intercept")[i] \in HandlerEvents
              /\ pc[t] \in {"raise", "handler_ret", "done"}
              /\ pc[t] = "raise" => ctx[t] = "handler"
              /\ yielded[t] = NoValue
              /\ pc[t] = "done" => EndsWith(h, "sentinel_return")

\* C10 witness: an invocation whose work raised an Error and then panicked
\* has returned the sentinel from the Err arm.
C10_Witness ==
    /\ pc[Main] = "done"
    /\ Count(hist[Main], "ERR_set_error") = 2
    /\ Has(hist[Main], "intercept")
    /\ EndsWith(hist[Main], "sentinel_return")
    /\ ret[Main] = ExpectedSentinel(conv[Main])
====
